---------------------------- MODULE Spec2Model ----------------------------
(***************************************************************************)
(* A model of the scrapper package: the content-section state machine and  *)
(* the infobox extractor of scrapper/model.py, the category index parser   *)
(* and the JSON store of scrapper/crawler.py, and the bounded-concurrency  *)
(* page scraping of Category.scrape_pages / Page.scrape_content.           *)
(*                                                                         *)
(* A text is a sequence of characters, each character a one-character      *)
(* string, so that str.replace, str.strip and str.join are computed, not   *)
(* assumed.                                                                *)
(***************************************************************************)
EXTENDS Integers, Sequences, FiniteSets, TLC

VARIABLES
    \* Crawler
    categories,        \* Crawler.categories: a list of Category(name, pages)
    \* Category.scrape_pages / Page.scrape_content
    scrape,            \* per category: the scrape_pages call and its semaphore
    tasks,             \* per page: the scrape_with_limit task of the call
    chrome,            \* the Chrome sessions started and not quit
    calls,             \* how many scrape_pages calls were made so far
    \* Crawler.scrape_categories
    crawl,             \* the scrape_categories call and its semaphore
    \* Crawler.set_categories._set_categories / parse_categories
    category_groups,   \* the category groups parsed so far, in order
    pcParse,           \* "parsing", "done", or "raised" when the parse raised
    \* Crawler.save_categories and, in a second Crawler, load_categories
    file,              \* the categories file: [exists, data]
    loaded,            \* the categories of the Crawler that loads the file
    pcStore,           \* "start", then the last of "saved" and "loaded"
    \* Page._set_info_box on one page
    infobox_table,     \* what page_source.find("table", "infobox side") gave
    info_box,          \* the page's info_box
    pcInfoBox,         \* "ready" before the call, "done" after it
    \* Content.set_info_content_sections: the loop over content_container.children
    children,          \* the children of the container iterated so far, in order
    current_title,
    current_texts,
    have_text,
    content_sections,  \* self.content_sections of the Content being filled
    pcSections         \* "loop" while iterating, "done" after the final emit

secVars == <<children, current_title, current_texts, have_text,
             content_sections, pcSections>>

scrapeVars == <<scrape, tasks, chrome, calls, crawl>>

parseVars == <<category_groups, pcParse>>

boxVars == <<infobox_table, info_box, pcInfoBox>>

storeVars == <<file, loaded, pcStore>>

vars == <<categories, scrapeVars, parseVars, storeVars, boxVars, secVars>>

\* what the steps of the scrape of a category leave alone
notScrape == <<crawl, parseVars, storeVars, boxVars, secVars>>

\* what the steps of scrape_categories leave alone
notCrawl == <<parseVars, storeVars, boxVars, secVars>>

\* what the section machine leaves alone
notSections == <<categories, scrapeVars, parseVars, storeVars, boxVars>>

\* what the category parser leaves alone
notParse == <<scrapeVars, storeVars, boxVars, secVars>>

\* what the infobox extractor leaves alone
notBox == <<categories, scrapeVars, parseVars, storeVars, secVars>>

\* what saving and loading leave alone
notStore == <<categories, scrapeVars, parseVars, boxVars, secVars>>

-----------------------------------------------------------------------------
(* Bounds of the model *)

\* the longest list of container children the section machine is run on
MaxChildren == 4

\* the pages of the category that is scraped
NumPages == 2

\* the category groups of a listing page
MaxGroups == 2

\* the anchors of a category group
MaxLinks == 2

\* the rows of an infobox table
MaxRows == 4

\* the categories of a tree that is saved
MaxCategories == 2

\* the scrape_pages calls made on one category
MaxCalls == 2

-----------------------------------------------------------------------------
(* Text: str operations used by the code *)

\* Python's None, where an object is optional
None == [none |-> TRUE]

\* the name of a child that is not a tag (a NavigableString)
NoName == "#string"

\* no browser session
NoBrowser == <<>>

EditMarker == <<"[", "e", "d", "i", "t", "]">>

Whitespace == {" ", "\n"}

StartsWith(s, p) ==
    /\ Len(s) >= Len(p)
    /\ SubSeq(s, 1, Len(p)) = p

\* str.replace(old, ""): one left-to-right pass over the non-overlapping
\* occurrences of old; what the removal brings together is not scanned again
RECURSIVE Replace(_, _)
Replace(s, old) ==
    IF s = <<>> THEN <<>>
    ELSE IF StartsWith(s, old)
         THEN Replace(SubSeq(s, Len(old) + 1, Len(s)), old)
         ELSE <<Head(s)>> \o Replace(Tail(s), old)

RECURSIVE LStrip(_)
LStrip(s) ==
    IF s # <<>> /\ Head(s) \in Whitespace THEN LStrip(Tail(s)) ELSE s

RECURSIVE RStrip(_)
RStrip(s) ==
    IF s # <<>> /\ s[Len(s)] \in Whitespace
    THEN RStrip(SubSeq(s, 1, Len(s) - 1))
    ELSE s

\* "sub in s"
Contains(s, sub) ==
    \E i \in 1..(Len(s) - Len(sub) + 1) : SubSeq(s, i, i + Len(sub) - 1) = sub

\* str.strip()
Strip(s) == RStrip(LStrip(s))

\* sep.join(texts)
RECURSIVE Join(_, _)
Join(sep, texts) ==
    IF texts = <<>> THEN <<>>
    ELSE IF Len(texts) = 1 THEN Head(texts)
    ELSE Head(texts) \o sep \o Join(sep, Tail(texts))

-----------------------------------------------------------------------------
(* The DOM, as the extractors read it.  An element is                      *)
(*   [name, strings, headline]                                             *)
(* name: the tag name (NoName for a NavigableString child), strings: the     *)
(* texts of its descendant strings in document order (for a dl: the text   *)
(* of each dt/dd item), headline: the index in strings of the string held  *)
(* by its span.mw-headline child, 0 when it has none.                      *)

Element(name, strings, headline) ==
    [name |-> name, strings |-> strings, headline |-> headline]

\* Tag.get_text(): the strings joined
GetText(el) == Join(<<>>, el.strings)

\* Tag.get_text(strip=True): each string stripped, the empty ones left out
GetTextStrip(el) ==
    Join(<<>>, SelectSeq([i \in 1..Len(el.strings) |-> Strip(el.strings[i])],
                         LAMBDA t : t # <<>>))

\* utils.extract_dl_text
extract_dl_text(dl_tag) ==
    Join(<<"\n">>, [i \in 1..Len(dl_tag.strings) |-> Strip(dl_tag.strings[i])])

-----------------------------------------------------------------------------
(* Content.set_info_content_sections *)

ContentSection(title, content) == [title |-> title, content |-> content]

\* the title taken from the whole text of the heading
_get_title_own_text(child) == GetTextStrip(child)

_get_title_from_h2(child) ==
    IF child.headline # 0
    THEN Strip(child.strings[child.headline])
    ELSE GetTextStrip(child)

_get_content_section_keep_marker(title, texts) ==
    ContentSection(title, Join(<<>>, texts))

_get_content_section(title, texts) ==
    ContentSection(title, Replace(Join(<<>>, texts), EditMarker))

\* The loop state: [current_title, current_texts, have_text, content_sections]
LoopInit ==
    [current_title |-> <<>>, current_texts |-> <<>>, have_text |-> FALSE,
     content_sections |-> <<>>]

Emit(st) ==
    IF st.have_text
    THEN Append(st.content_sections,
                _get_content_section(st.current_title, st.current_texts))
    ELSE st.content_sections

\* the h2 branch emptying the buffer only when it emits a section
H2BranchKeepUnemitted(st, child) ==
    [st EXCEPT !.content_sections = Emit(st),
               !.current_texts = IF st.have_text THEN <<>> ELSE @,
               !.current_title = _get_title_from_h2(child),
               !.have_text = FALSE]

\* the h2 branch with the buffer not emptied
H2BranchKeepBuffer(st, child) ==
    [st EXCEPT !.content_sections = Emit(st),
               !.current_title = _get_title_from_h2(child),
               !.have_text = FALSE]

H2Branch(st, child) ==
    [st EXCEPT !.content_sections = Emit(st),
               !.current_texts = <<>>,
               !.current_title = _get_title_from_h2(child),
               !.have_text = FALSE]

\* a subsection heading adding its text without the line breaks
H3TextNoBreak(child) == GetText(child)

\* "\n" + child.get_text() + "\n"
H3Text(child) == <<"\n">> \o GetText(child) \o <<"\n">>

\* a subsection heading counted as text of the section
SubsectionBranchSetsHaveText(st, child) ==
    [st EXCEPT !.current_texts = Append(@, H3Text(child)),
               !.have_text = TRUE]

\* the h3/h4 branch: the buffer grows, have_text is left as it is
SubsectionBranch(st, child) ==
    [st EXCEPT !.current_texts = Append(@, H3Text(child))]

\* one iteration of "for child in content_container.children"
LoopBody(st, child) ==
    IF child.name = NoName THEN st
    ELSE IF child.name = "h2" THEN H2Branch(st, child)
    ELSE IF child.name \in {"p"}
         THEN [st EXCEPT !.current_texts = Append(@, GetText(child)),
                         !.have_text = TRUE]
    ELSE IF child.name \in {"h3", "h4"}
         THEN SubsectionBranch(st, child)
    ELSE IF child.name = "dl"
         THEN IF extract_dl_text(child) # <<>>
              THEN [st EXCEPT !.current_texts = Append(@, extract_dl_text(child))]
              ELSE st
    ELSE st

\* the loop ending without the last section
LoopEndNoAppend(st) == st

\* after the loop: "if have_text: append"
LoopEnd(st) == [st EXCEPT !.content_sections = Emit(st)]

RECURSIVE RunLoop(_, _)
RunLoop(st, kids) ==
    IF kids = <<>> THEN st ELSE RunLoop(LoopBody(st, Head(kids)), Tail(kids))

\* Content().set_info_content_sections(content_container): the sections of a
\* fresh Content after the call
set_info_content_sections(kids) ==
    LoopEnd(RunLoop(LoopInit, kids)).content_sections

-----------------------------------------------------------------------------
(* Pages and categories *)

\* pydantic HttpUrl, as a value: [scheme, host, path], three texts
Url(scheme, host, path) == [scheme |-> scheme, host |-> host, path |-> path]

Http == <<"h", "t", "t", "p">>
Https == <<"h", "t", "t", "p", "s">>

\* the index of the first ch in s at or after position i, 0 when there is none
RECURSIVE Find(_, _, _)
Find(s, ch, i) ==
    IF i > Len(s) THEN 0
    ELSE IF s[i] = ch THEN i
    ELSE Find(s, ch, i + 1)

RECURSIVE SkipSlashes(_)
SkipSlashes(s) ==
    IF s # <<>> /\ Head(s) = "/" THEN SkipSlashes(Tail(s)) ELSE s

\* the text before the first ":" (all of it when there is none)
SchemeOf(s) ==
    IF Find(s, ":", 1) = 0 THEN s ELSE SubSeq(s, 1, Find(s, ":", 1) - 1)

\* the text after the scheme, the ":" and the slashes that follow it
AfterScheme(s) == SkipSlashes(SubSeq(s, Find(s, ":", 1) + 1, Len(s)))

HostOf(s) ==
    IF Find(AfterScheme(s), "/", 1) = 0 THEN AfterScheme(s)
    ELSE SubSeq(AfterScheme(s), 1, Find(AfterScheme(s), "/", 1) - 1)

\* the path, "/" when the text gives none
PathOf(s) ==
    IF Find(AfterScheme(s), "/", 1) = 0 THEN <<"/">>
    ELSE SubSeq(AfterScheme(s), Find(AfterScheme(s), "/", 1), Len(AfterScheme(s)))

\* whether HttpUrl accepts the text: an http or https scheme and a host
\* (the texts of the model are lower case and hold no port, query or
\* fragment)
IsHttpUrl(s) ==
    /\ Find(s, ":", 1) # 0
    /\ SchemeOf(s) \in {Http, Https}
    /\ HostOf(s) # <<>>

\* HttpUrl(text), for a text it accepts
HttpUrl(s) == Url(SchemeOf(s), HostOf(s), PathOf(s))

\* str(url)
UrlStr(url) == url.scheme \o <<":", "/", "/">> \o url.host \o url.path

Content(sections) == [content_sections |-> sections]

Page(title, url, infobox, content) ==
    [title |-> title, url |-> url, info_box |-> infobox, content |-> content,
     page_source |-> None]

Category(name, pages) == [name |-> name, pages |-> pages]

Digits == <<"1", "2", "3", "4", "5", "6", "7", "8", "9">>

\* every page of the tree, as <<index of its category, index in its pages>>
PageRefs ==
    UNION {{<<c, i>> : i \in DOMAIN categories[c].pages} : c \in DOMAIN categories}

PageAt(r) == categories[r[1]].pages[r[2]]

\* the largest tree of the model
AllCategories == {1}
AllPageRefs == AllCategories \X (1..NumPages)

-----------------------------------------------------------------------------
(* The page a browser session shows after driver.get(url): a DOM whose     *)
(* div.mw-parser-output is a list of children, or is missing (None)        *)

Dom(container) == [mw_parser_output |-> container]

\* a tag and its children
Tag(kids) == [children |-> kids]

DomPool ==
    { Dom(None),
      Dom(Tag(<< Element("p", << <<"a">> >>, 0),
                 Element("h2", << <<"T">>, EditMarker >>, 1),
                 Element("p", << <<"b">> \o EditMarker >>, 0) >>)) }

\* a Content a page may hold from an earlier run (Crawler.load_categories)
StoredContent == Content(<<ContentSection(<<"O">>, <<"o">>)>>)

-----------------------------------------------------------------------------
(* Category.scrape_pages and Page.scrape_content                           *)
(*                                                                         *)
(* A task is [pc, browser, error]; browser is the session its with block   *)
(* holds, error the failure its scrape_content ran into (what the page's   *)
(* log record reports), "none" when there was none; pc is                  *)
(*   "none"      no task for the page                                      *)
(*   "pending"   scrape_with_limit waits on "async with semaphore"         *)
(*   "thread"    holds a slot; scrape_content started in a worker thread   *)
(*   "browser"   inside "with utils.init_browser() as browser"             *)
(*   "finished"  scrape_content returned                                   *)
(*   "raised"    scrape_content raised                                     *)
(*   "done"      the slot is released, the task completed                  *)
(*   "failed"    the slot is released, the task completed with an error    *)

NoTask == [pc |-> "none", browser |-> NoBrowser, error |-> "none"]

\* no scrape_categories call: [status, semaphore, max_workers,
\* max_workers_page]
NoCrawl ==
    [status |-> "idle", semaphore |-> 0, max_workers |-> 0,
     max_workers_page |-> 0]

InThread == {"thread", "browser"}
HoldsSlot == InThread \cup {"finished", "raised"}
Completed == {"done", "failed"}

\* the except clause of scrape_content re-raising instead of logging
scrape_content_reraise == "raised"

\* scrape_content's "except Exception": the error is logged, the call returns
scrape_content_except == "finished"

\* init_browser's "except Exception" around the yield: an error of the with
\* body is logged and not re-raised, so the with statement suppresses it and
\* scrape_content returns; browser.quit() (the else clause) is not run
init_browser_except == "finished"

\* an acquire that does not wait
SemaphoreNeverLocked(c) == TRUE

\* asyncio.Semaphore.acquire proceeds only while the value is positive
SemaphoreFree(c) == scrape[c].semaphore > 0

\* one Chrome for every call
SharedBrowser(r) == <<0, 0, 0>>

\* uc.Chrome(...): a new session object each time it is evaluated, named here
\* by the page whose scrape_content starts it and the first number that no
\* open session of that page carries
NewBrowser(r) ==
    <<r[1], r[2],
      1 + Cardinality({b \in chrome : b[1] = r[1] /\ b[2] = r[2]})>>

\* every task bound to the last page of the list
LastPageOfCategory(r) == <<r[1], Len(categories[r[1]].pages)>>

\* scrape_with_limit(page) for page in self.pages: the page the task scrapes
TaskPage(r) == r

\* One category of up to NumPages pages.  The tree is as set_categories
\* leaves it (no page has content), or as load_categories leaves it (the
\* first page holds a stored Content)
ScrapeInit ==
    /\ \E stored \in {None, StoredContent}, n \in 0..NumPages :
          categories =
             << Category(<<"A">>,
                   [i \in 1..n |->
                      Page(<<"A", Digits[i]>>,
                           Url(Https, <<"h">>, <<"/", Digits[i]>>),
                           None, IF i = 1 THEN stored ELSE None)]) >>
    /\ scrape = [c \in DOMAIN categories |->
                    [status |-> "idle", semaphore |-> 0, max_workers |-> 0]]
    /\ tasks = [r \in PageRefs |-> NoTask]
    /\ chrome = {}
    /\ calls = 0
    /\ crawl = NoCrawl

\* await category.scrape_pages(max_workers): the semaphore is made and one
\* scrape_with_limit task per page is handed to asyncio.gather
ScrapePages(c, max_workers) ==
    /\ scrape[c].status \in {"idle", "returned"}
    /\ calls < MaxCalls
    /\ calls' = calls + 1
    /\ scrape' = [scrape EXCEPT ![c] = [status |-> "gathering",
                                        semaphore |-> max_workers,
                                        max_workers |-> max_workers]]
    /\ tasks' = [r \in PageRefs |->
                    IF r[1] = c THEN [NoTask EXCEPT !.pc = "pending"]
                    ELSE tasks[r]]
    /\ UNCHANGED <<categories, chrome>>
    /\ UNCHANGED notScrape

\* "async with semaphore": the slot is taken, asyncio.to_thread starts
\* page.scrape_content
Acquire(r) ==
    /\ r \in PageRefs
    /\ tasks[r].pc = "pending"
    /\ SemaphoreFree(r[1])
    /\ scrape' = [scrape EXCEPT ![r[1]].semaphore = @ - 1]
    /\ tasks' = [tasks EXCEPT ![r].pc = "thread"]
    /\ UNCHANGED <<categories, chrome, calls>>
    /\ UNCHANGED notScrape

\* "with utils.init_browser() as browser": uc.Chrome starts a session, or
\* raises; init_browser logs the error and ends without yielding, the
\* RuntimeError of the with statement reaches scrape_content's except
InitBrowser(r) ==
    /\ r \in PageRefs
    /\ tasks[r].pc = "thread"
    /\ \/ /\ chrome' = chrome \cup {NewBrowser(r)}
          /\ tasks' = [tasks EXCEPT ![r].pc = "browser",
                                    ![r].browser = NewBrowser(r)]
       \/ /\ tasks' = [tasks EXCEPT ![r].pc = scrape_content_except,
                                    ![r].error = "chrome"]
          /\ UNCHANGED chrome
    /\ UNCHANGED <<categories, scrape, calls>>
    /\ UNCHANGED notScrape

\* what driver.get(url) and driver.page_source give _set_page_source: a DOM,
\* or None when the navigation raises
Navigations == DomPool \cup {None}

\* a _set_content that calls _set_page_source whether or not a page source
\* is held
PageSourceAlwaysFetched(page) == Navigations

\* "if self._page_source is None: self._set_page_source(driver)": the page
\* sources _set_content may go on with, the held one when there is one, and
\* otherwise what the navigation gives
PageSourceFor(page) ==
    IF page.page_source = None THEN Navigations ELSE {page.page_source}

\* the container looked at before content is replaced: a missing one leaves
\* the page without content
ContentAfterLookup(container) ==
    IF container = None THEN None
    ELSE Content(set_info_content_sections(container.children))

\* the content of the page after "self.content = Content()" and
\* "self.content.set_info_content_sections(content_container)", where a
\* missing container (None) raises at content_container.children
ContentAfter(container) ==
    IF container = None THEN Content(<<>>)
    ELSE Content(set_info_content_sections(container.children))

\* a _set_content that also fills the info_box, from a table without rows
PageAfterSetContentAndInfoBox(page, source) ==
    [page EXCEPT !.page_source = source,
                 !.content = ContentAfter(source.mw_parser_output),
                 !.info_box = [title |-> <<>>, info_box_sections |-> <<>>]]

\* the page after self._set_content(browser) with page source `source`
PageAfterSetContent(page, source) ==
    [page EXCEPT !.page_source = source,
                 !.content = ContentAfter(source.mw_parser_output)]

\* self._set_content(browser) and the end of the with block.
\* "if self._page_source is None: self._set_page_source(driver)": driver.get
\* may raise, and nothing of the page is written.  Otherwise the container is
\* looked up in the page source, content is replaced by a new Content and the
\* sections are read; a missing container raises after the replacement.
\* browser.quit() runs only when the body did not raise.
SetContent(r) ==
    /\ r \in PageRefs
    /\ tasks[r].pc = "browser"
    /\ \E nav \in PageSourceFor(PageAt(TaskPage(r))) :
          IF nav = None
          THEN /\ tasks' = [tasks EXCEPT ![r] = [pc |-> init_browser_except,
                                                 browser |-> NoBrowser,
                                                 error |-> "navigation"]]
               /\ UNCHANGED <<categories, chrome>>
          ELSE /\ categories' =
                     [categories EXCEPT
                        ![TaskPage(r)[1]].pages[TaskPage(r)[2]] =
                            PageAfterSetContent(@, nav)]
               /\ IF nav.mw_parser_output = None
                  THEN /\ tasks' = [tasks EXCEPT ![r] =
                                       [pc |-> init_browser_except,
                                        browser |-> NoBrowser,
                                        error |-> "container"]]
                       /\ UNCHANGED chrome
                  ELSE /\ tasks' = [tasks EXCEPT ![r].pc = "finished",
                                                 ![r].browser = NoBrowser]
                       /\ chrome' = chrome \ {tasks[r].browser}
    /\ UNCHANGED <<scrape, calls>>
    /\ UNCHANGED notScrape

\* the worker thread is over: "async with" releases the slot and the task
\* completes, with the error when scrape_content raised
Release(r) ==
    /\ r \in PageRefs
    /\ tasks[r].pc \in {"finished", "raised"}
    /\ scrape' = [scrape EXCEPT ![r[1]].semaphore = @ + 1]
    /\ tasks' = [tasks EXCEPT ![r].pc =
                    IF tasks[r].pc = "raised" THEN "failed" ELSE "done"]
    /\ UNCHANGED <<categories, chrome, calls>>
    /\ UNCHANGED notScrape

TasksOf(c) == {r \in PageRefs : r[1] = c}

\* a wait that ends with the first task to complete
AnyCompleted(c) == \E r \in TasksOf(c) : tasks[r].pc \in Completed

\* every awaitable handed to gather is over
AllCompleted(c) == \A r \in TasksOf(c) : tasks[r].pc \in Completed

\* asyncio.gather: the await ends when every task completed, or with the
\* error of the first task that failed
Gather(c) ==
    /\ c \in DOMAIN categories
    /\ scrape[c].status = "gathering"
    /\ AllCompleted(c) \/ \E r \in TasksOf(c) : tasks[r].pc = "failed"
    /\ scrape' = [scrape EXCEPT ![c].status =
                     IF \E r \in TasksOf(c) : tasks[r].pc = "failed"
                     THEN "raised" ELSE "returned"]
    /\ UNCHANGED <<categories, tasks, chrome, calls>>
    /\ UNCHANGED notScrape

TaskStep(r) ==
    \/ Acquire(r)
    \/ InitBrowser(r)
    \/ SetContent(r)
    \/ Release(r)

ScrapeNext ==
    \/ \E c \in DOMAIN categories, n \in 1..NumPages : ScrapePages(c, n)
    \/ \E r \in AllPageRefs : TaskStep(r)
    \/ \E c \in AllCategories : Gather(c)

ScrapeIdle ==
    /\ categories = <<>>
    /\ scrape = <<>>
    /\ tasks = <<>>
    /\ chrome = {}
    /\ calls = 0
    /\ crawl = NoCrawl

ParseIdle ==
    /\ category_groups = <<>>
    /\ pcParse = "done"

StoreIdle ==
    /\ file = [exists |-> FALSE, data |-> <<>>]
    /\ loaded = <<>>
    /\ pcStore = "start"

BoxIdle ==
    /\ infobox_table = None
    /\ info_box = None
    /\ pcInfoBox = "done"

SectionsIdle ==
    /\ children = <<>>
    /\ current_title = <<>>
    /\ current_texts = <<>>
    /\ have_text = FALSE
    /\ content_sections = <<>>
    /\ pcSections = "done"

Init == ScrapeInit /\ ParseIdle /\ StoreIdle /\ BoxIdle /\ SectionsIdle

Next == ScrapeNext

Spec == Init /\ [][Next]_vars

\* while a task can take a slot or a worker thread can go on, one of them
\* does (the event loop and the thread pool do not stop), and a gather whose
\* tasks are over resumes its caller
Fairness ==
    /\ WF_vars(\E r \in AllPageRefs : TaskStep(r))
    /\ WF_vars(\E c \in AllCategories : Gather(c))

FairSpec == Spec /\ Fairness

-----------------------------------------------------------------------------
(* Crawler.scrape_categories                                               *)
(*                                                                         *)
(* One scrape_with_limit task per category: scrape[c].status is "pending"  *)
(* while it waits on the crawler's semaphore, "gathering" while its        *)
(* scrape_pages call runs and "returned" when the call is over and the     *)
(* slot is released.                                                       *)

CrawlCategories == 1..MaxCategories
CrawlPageRefs == CrawlCategories \X (1..NumPages)

\* a tree of up to MaxCategories categories of up to NumPages pages, as
\* set_categories leaves it
CrawlInit ==
    /\ \E sizes \in UNION {[1..n -> 0..NumPages] : n \in 0..MaxCategories} :
          categories =
             [c \in DOMAIN sizes |->
                Category(<<Digits[c]>>,
                   [i \in 1..sizes[c] |->
                      Page(<<Digits[c], Digits[i]>>,
                           Url(Https, <<"h">>, <<"/", Digits[c], Digits[i]>>),
                           None, None)])]
    /\ scrape = [c \in DOMAIN categories |->
                    [status |-> "idle", semaphore |-> 0, max_workers |-> 0]]
    /\ tasks = [r \in PageRefs |-> NoTask]
    /\ chrome = {}
    /\ calls = 0
    /\ crawl = NoCrawl
    /\ ParseIdle
    /\ StoreIdle
    /\ BoxIdle
    /\ SectionsIdle

\* await crawler.scrape_categories(max_workers, max_workers_page): the
\* semaphore is made and one task per category is handed to asyncio.gather
ScrapeCategories(max_workers, max_workers_page) ==
    /\ crawl.status = "idle"
    /\ crawl' = [status |-> "gathering", semaphore |-> max_workers,
                 max_workers |-> max_workers,
                 max_workers_page |-> max_workers_page]
    /\ scrape' = [c \in DOMAIN categories |->
                     [scrape[c] EXCEPT !.status = "pending"]]
    /\ UNCHANGED <<categories, tasks, chrome, calls>>
    /\ UNCHANGED notCrawl

\* "async with semaphore" of a category task, then
\* category.scrape_pages(max_workers=max_workers_page) up to its gather
AcquireCategory(c) ==
    /\ c \in DOMAIN categories
    /\ scrape[c].status = "pending"
    /\ crawl.semaphore > 0
    /\ crawl' = [crawl EXCEPT !.semaphore = @ - 1]
    /\ calls' = calls + 1
    /\ scrape' = [scrape EXCEPT ![c] = [status |-> "gathering",
                                        semaphore |-> crawl.max_workers_page,
                                        max_workers |-> crawl.max_workers_page]]
    /\ tasks' = [r \in PageRefs |->
                    IF r[1] = c THEN [NoTask EXCEPT !.pc = "pending"]
                    ELSE tasks[r]]
    /\ UNCHANGED <<categories, chrome>>
    /\ UNCHANGED notCrawl

\* the gather of scrape_pages is over (no page task fails: scrape_content
\* does not raise), scrape_pages returns and "async with" releases the slot
ReleaseCategory(c) ==
    /\ c \in DOMAIN categories
    /\ scrape[c].status = "gathering"
    /\ AllCompleted(c)
    /\ scrape' = [scrape EXCEPT ![c].status = "returned"]
    /\ crawl' = [crawl EXCEPT !.semaphore = @ + 1]
    /\ UNCHANGED <<categories, tasks, chrome, calls>>
    /\ UNCHANGED notCrawl

\* the gather of scrape_categories is over
GatherCategories ==
    /\ crawl.status = "gathering"
    /\ \A c \in DOMAIN categories : scrape[c].status = "returned"
    /\ crawl' = [crawl EXCEPT !.status = "returned"]
    /\ UNCHANGED <<categories, scrape, tasks, chrome, calls>>
    /\ UNCHANGED notCrawl

CrawlNext ==
    \/ \E max_workers \in CrawlCategories, max_workers_page \in 1..NumPages :
          ScrapeCategories(max_workers, max_workers_page)
    \/ \E c \in CrawlCategories : AcquireCategory(c)
    \/ \E r \in CrawlPageRefs : TaskStep(r)
    \/ \E c \in CrawlCategories : ReleaseCategory(c)
    \/ GatherCategories

SpecCrawl == CrawlInit /\ [][CrawlNext]_vars

-----------------------------------------------------------------------------
(* Crawler.scrape_page, Crawler.get_category, Category.scrape_page and      *)
(* Category.get_page: one page scraped by its title, in the caller's       *)
(* thread.  tasks[r] records the call of scrape_content on page r: pc      *)
(* "finished" once it returned, error what it logged.                      *)

\* Crawler.get_category(name): the index of the first category of that name,
\* 0 for None
get_category(name) ==
    IF \E c \in DOMAIN categories : categories[c].name = name
    THEN CHOOSE c \in DOMAIN categories :
            /\ categories[c].name = name
            /\ \A d \in 1..(c - 1) : categories[d].name # name
    ELSE 0

\* Category.get_page(title) on category c: the index of its first page of
\* that title, 0 for None
get_page(c, title) ==
    IF \E i \in DOMAIN categories[c].pages : categories[c].pages[i].title = title
    THEN CHOOSE i \in DOMAIN categories[c].pages :
            /\ categories[c].pages[i].title = title
            /\ \A j \in 1..(i - 1) : categories[c].pages[j].title # title
    ELSE 0

\* page.scrape_content() from start to return, on page r: Chrome does not
\* start, or the navigation raises, or the container is missing, or the
\* content is extracted; a session whose with body raised is not quit
ScrapeContent(r) ==
    \/ /\ tasks' = [tasks EXCEPT ![r] = [pc |-> scrape_content_except,
                                         browser |-> NoBrowser,
                                         error |-> "chrome"]]
       /\ UNCHANGED <<categories, chrome>>
    \/ \E nav \in PageSourceFor(PageAt(r)) :
          IF nav = None
          THEN /\ tasks' = [tasks EXCEPT ![r] = [pc |-> init_browser_except,
                                                 browser |-> NoBrowser,
                                                 error |-> "navigation"]]
               /\ chrome' = chrome \cup {NewBrowser(r)}
               /\ UNCHANGED categories
          ELSE /\ categories' =
                     [categories EXCEPT ![r[1]].pages[r[2]] =
                                           PageAfterSetContent(@, nav)]
               /\ IF nav.mw_parser_output = None
                  THEN /\ tasks' = [tasks EXCEPT ![r] =
                                       [pc |-> init_browser_except,
                                        browser |-> NoBrowser,
                                        error |-> "container"]]
                       /\ chrome' = chrome \cup {NewBrowser(r)}
                  ELSE /\ tasks' = [tasks EXCEPT ![r] =
                                       [pc |-> "finished",
                                        browser |-> NoBrowser,
                                        error |-> "none"]]
                       /\ UNCHANGED chrome

\* the titles scrape_page is called with (none of them empty: page_title[0]
\* raises IndexError for an empty title)
TitlePool == { <<"A", "1">>, <<"B", "1">>, <<"C", "1">> }

\* trees whose categories are named "A" or "B" and hold pages titled "A1" or
\* "B1", in either category
TitledCategoryPool ==
    { Category(name,
               [i \in DOMAIN titles |->
                   Page(titles[i], Url(Https, <<"h">>, <<"/">> \o titles[i]),
                        None, None)]) :
         name \in { <<"A">>, <<"B">> },
         titles \in UNION {[1..n -> {<<"A", "1">>, <<"B", "1">>}] : n \in 0..NumPages} }

ScrapePageInit ==
    /\ categories \in UNION {[1..n -> TitledCategoryPool] : n \in 0..MaxCategories}
    /\ scrape = [c \in DOMAIN categories |->
                    [status |-> "idle", semaphore |-> 0, max_workers |-> 0]]
    /\ tasks = [r \in PageRefs |-> NoTask]
    /\ chrome = {}
    /\ calls = 0
    /\ crawl = NoCrawl
    /\ ParseIdle
    /\ StoreIdle
    /\ BoxIdle
    /\ SectionsIdle

\* crawler.scrape_page(page_title)
ScrapePage(page_title) ==
    /\ calls < MaxCalls
    /\ calls' = calls + 1
    /\ IF get_category(<<page_title[1]>>) = 0
       THEN UNCHANGED <<categories, tasks, chrome>>
       ELSE IF get_page(get_category(<<page_title[1]>>), page_title) = 0
       THEN UNCHANGED <<categories, tasks, chrome>>
       ELSE ScrapeContent(<<get_category(<<page_title[1]>>),
                            get_page(get_category(<<page_title[1]>>), page_title)>>)
    /\ UNCHANGED scrape
    /\ UNCHANGED notScrape

ScrapePageNext == \E page_title \in TitlePool : ScrapePage(page_title)

SpecScrapePage == ScrapePageInit /\ [][ScrapePageNext]_vars

-----------------------------------------------------------------------------
(* Crawler.set_categories._set_categories (and parse_categories of          *)
(* __main__.py, the same loop building a local list)                       *)
(*                                                                         *)
(* A category group is [h3, links]: the text of its h3 and its "ul li a"   *)
(* anchors; an anchor is [text, has_href, href], get_attribute("href")     *)
(* being None when has_href is false.                                      *)

Link(text, has_href, href) ==
    [text |-> text, has_href |-> has_href, href |-> href]

LinkPool ==
    { Link(<<"A", "1">>, TRUE, Https \o <<":", "/", "/", "h", "/", "1">>),
      Link(<<"A", "2">>, TRUE, Http \o <<":", "/", "/", "h">>),
      Link(<<"A", "3">>, FALSE, <<>>),
      Link(<<"A", "4">>, TRUE, <<"j", "s", ":", "v", "(", ")">>) }

GroupPool ==
    { [h3 |-> name, links |-> links] :
         name \in { <<" ", "A">> },
         links \in UNION {[1..n -> LinkPool] : n \in 0..MaxLinks} }

\* the anchors of the group that reach model.Page(...)
WithHref(links) == SelectSeq(links, LAMBDA link : link.has_href)

\* the "for link in links" loop raises at the first HttpUrl(url) that does
\* not validate
LinksRaise(links) ==
    \E i \in 1..Len(WithHref(links)) : ~IsHttpUrl(WithHref(links)[i].href)

\* the pages list the loop builds when no HttpUrl(url) raises
PagesOf(links) ==
    [i \in 1..Len(WithHref(links)) |->
        Page(WithHref(links)[i].text, HttpUrl(WithHref(links)[i].href),
             None, None)]

ParseInit ==
    /\ categories = <<>>
    /\ scrape = <<>>
    /\ tasks = <<>>
    /\ chrome = {}
    /\ calls = 0
    /\ crawl = NoCrawl
    /\ category_groups = <<>>
    /\ pcParse = "parsing"
    /\ StoreIdle
    /\ BoxIdle
    /\ SectionsIdle

\* one iteration of "for group in category_groups"
ParseGroup(group) ==
    /\ pcParse = "parsing"
    /\ Len(category_groups) < MaxGroups
    /\ category_groups' = Append(category_groups, group)
    /\ IF LinksRaise(group.links)
       THEN /\ pcParse' = "raised"
            /\ UNCHANGED categories
       ELSE /\ categories' = Append(categories,
                                    Category(Strip(group.h3), PagesOf(group.links)))
            /\ UNCHANGED pcParse
    /\ UNCHANGED notParse

\* the loop is over: _set_categories returns
ParseEnd ==
    /\ pcParse = "parsing"
    /\ pcParse' = "done"
    /\ UNCHANGED <<categories, category_groups>>
    /\ UNCHANGED notParse

ParseNext ==
    \/ \E group \in GroupPool : ParseGroup(group)
    \/ ParseEnd

SpecParse == ParseInit /\ [][ParseNext]_vars

-----------------------------------------------------------------------------
(* Page._set_info_box and InfoBox.set_info_box_sections                     *)
(*                                                                         *)
(* An infobox table is [rows]; a row is [header, data]: its first th and   *)
(* its first td, None for a cell the row does not have.  A th is           *)
(* [class, strings], a td is [strings, links], a link is [strings].        *)

InfoBoxSection(title, description) ==
    [title |-> title, description |-> description]

InfoBox(title, sections) == [title |-> title, info_box_sections |-> sections]

Th(class, strings) == [class |-> class, strings |-> strings]

Td(strings, links) == [strings |-> strings, links |-> links]

Row(header, data) == [header |-> header, data |-> data]

Table(rows) == [rows |-> rows]

\* the title-row test that skips every row: no row is taken for the title row
NeverTitleHeader(header) == FALSE

\* "header and 'title' in header.get('class', [])"
IsTitleHeader(header) == header # None /\ "title" \in header.class

\* the value of a row: the texts of its links joined with ", ", or the text
\* of the td when it has no link
RowValue(data) ==
    IF data.links # <<>>
    THEN Join(<<",", " ">>,
              [i \in 1..Len(data.links) |-> GetTextStrip(data.links[i])])
    ELSE GetTextStrip(data)

\* the body of "for row in rows"
RowBody(sections, row) ==
    IF IsTitleHeader(row.header) THEN sections
    ELSE IF row.header # None /\ row.data # None
    THEN Append(sections,
                InfoBoxSection(GetTextStrip(row.header), RowValue(row.data)))
    ELSE sections

RECURSIVE RowLoop(_, _)
RowLoop(sections, rows) ==
    IF rows = <<>> THEN sections
    ELSE RowLoop(RowBody(sections, Head(rows)), Tail(rows))

\* InfoBox.set_info_box_sections, on a new InfoBox
set_info_box_sections(table) == RowLoop(<<>>, table.rows)

\* infobox_table.find("th", class_="title"): the first such th, or None
RECURSIVE FindTitleCell(_)
FindTitleCell(rows) ==
    IF rows = <<>> THEN None
    ELSE IF Head(rows).header # None /\ "title" \in Head(rows).header.class
    THEN Head(rows).header
    ELSE FindTitleCell(Tail(rows))

\* the info_box after _set_info_box, the page source being loaded
InfoBoxAfter(old, table) ==
    IF table = None THEN old
    ELSE InfoBox(IF FindTitleCell(table.rows) # None
                 THEN GetTextStrip(FindTitleCell(table.rows))
                 ELSE <<>>,
                 set_info_box_sections(table))

RowPool ==
    { Row(Th({"title"}, << <<" ", "N", " ">> >>), None),
      Row(Th({"title", "x"}, << <<"M">> >>), Td(<< <<"m">> >>, <<>>)),
      Row(Th({}, << <<"k", " ">> >>), Td(<< <<" ", "v">> >>, <<>>)),
      Row(Th({"x"}, << <<"l">> >>),
          Td(<< <<"a">>, <<"-">>, <<"b">> >>,
             << [strings |-> << <<"a", " ">> >>], [strings |-> << <<"b">> >>] >>)),
      Row(Th({}, << <<"h">> >>), None),
      Row(None, Td(<< <<"d">> >>, <<>>)),
      Row(None, None) }

TablePool ==
    {None} \cup {Table(rows) : rows \in UNION {[1..n -> RowPool] : n \in 0..MaxRows}}

BoxInit ==
    /\ ScrapeIdle
    /\ ParseIdle
    /\ StoreIdle
    /\ SectionsIdle
    /\ infobox_table \in TablePool
    /\ info_box = None
    /\ pcInfoBox = "ready"

\* self._set_info_box(driver), the page source being loaded
SetInfoBox ==
    /\ pcInfoBox = "ready"
    /\ info_box' = InfoBoxAfter(info_box, infobox_table)
    /\ pcInfoBox' = "done"
    /\ UNCHANGED infobox_table
    /\ UNCHANGED notBox

BoxNext == SetInfoBox

SpecInfoBox == BoxInit /\ [][BoxNext]_vars

-----------------------------------------------------------------------------
(* The orchestration entry points, called one after the other on one tree: *)
(* Category.scrape_pages, Crawler.scrape_page (Category.scrape_page and    *)
(* Page.scrape_content under it) and Crawler.scrape_categories             *)

\* an InfoBox a page may hold from an earlier run (Crawler.load_categories)
StoredInfoBox == InfoBox(<<"N">>, <<InfoBoxSection(<<"k">>, <<"v">>)>>)

\* no scrape_pages or scrape_categories call is under way
Quiet ==
    /\ crawl.status # "gathering"
    /\ \A c \in DOMAIN categories :
          scrape[c].status \in {"idle", "returned", "raised"}

\* One category "A" of up to NumPages pages "A1", "A2", ...: as
\* set_categories leaves it, or as load_categories leaves it, the first page
\* holding a stored InfoBox and a stored Content
OrchestrateInit ==
    /\ \E stored \in BOOLEAN, n \in 0..NumPages :
          categories =
             << Category(<<"A">>,
                   [i \in 1..n |->
                      Page(<<"A", Digits[i]>>,
                           Url(Https, <<"h">>, <<"/", Digits[i]>>),
                           IF i = 1 /\ stored THEN StoredInfoBox ELSE None,
                           IF i = 1 /\ stored THEN StoredContent ELSE None)]) >>
    /\ scrape = [c \in DOMAIN categories |->
                    [status |-> "idle", semaphore |-> 0, max_workers |-> 0]]
    /\ tasks = [r \in PageRefs |-> NoTask]
    /\ chrome = {}
    /\ calls = 0
    /\ crawl = NoCrawl
    /\ ParseIdle
    /\ StoreIdle
    /\ BoxIdle
    /\ SectionsIdle

\* await category.scrape_pages(max_workers), called by the program
CallScrapePages(c, max_workers) == Quiet /\ ScrapePages(c, max_workers)

\* the gather of a scrape_pages call made by the program
ReturnScrapePages(c) == crawl.status # "gathering" /\ Gather(c)

\* crawler.scrape_page(page_title), called by the program
CallScrapePage(page_title) == Quiet /\ ScrapePage(page_title)

\* await crawler.scrape_categories(max_workers, max_workers_page)
CallScrapeCategories(max_workers, max_workers_page) ==
    /\ Quiet
    /\ calls < MaxCalls
    /\ ScrapeCategories(max_workers, max_workers_page)

\* scrape_pages is called with one worker (its pages one at a time),
\* scrape_categories with as many page workers as there are pages (all its
\* pages at once)
OrchestrateNext ==
    \/ \E c \in AllCategories : CallScrapePages(c, 1)
    \/ \E r \in AllPageRefs : TaskStep(r)
    \/ \E c \in AllCategories : ReturnScrapePages(c)
    \/ \E page_title \in TitlePool : CallScrapePage(page_title)
    \/ CallScrapeCategories(1, NumPages)
    \/ \E c \in AllCategories : AcquireCategory(c)
    \/ \E c \in AllCategories : ReleaseCategory(c)
    \/ GatherCategories

SpecOrchestrate == OrchestrateInit /\ [][OrchestrateNext]_vars

-----------------------------------------------------------------------------
(* Crawler.save_categories and Crawler.load_categories                      *)
(*                                                                         *)
(* The file holds what json.dump wrote: a list of objects (records), lists *)
(* (sequences), strings (texts) and null.  model_dump(mode="json") turns a *)
(* url into its text, None into null and leaves out the private            *)
(* _page_source; load_categories validates a Category of each object.    *)

Null == [null |-> TRUE]

DumpContentSection(section) ==
    [title |-> section.title, content |-> section.content]

\* a dump that writes a Content without sections as null
DumpContentFalsy(content) ==
    IF content.content_sections = <<>> THEN Null
    ELSE [content_sections |->
             [i \in 1..Len(content.content_sections) |->
                 DumpContentSection(content.content_sections[i])]]

DumpContent(content) ==
    [content_sections |->
        [i \in 1..Len(content.content_sections) |->
            DumpContentSection(content.content_sections[i])]]

DumpInfoBoxSection(section) ==
    [title |-> section.title, description |-> section.description]

DumpInfoBox(box) ==
    [title |-> box.title,
     info_box_sections |->
        [i \in 1..Len(box.info_box_sections) |->
            DumpInfoBoxSection(box.info_box_sections[i])]]

DumpPage(page) ==
    [title |-> page.title,
     url |-> UrlStr(page.url),
     info_box |-> IF page.info_box = None THEN Null ELSE DumpInfoBox(page.info_box),
     content |-> IF page.content = None THEN Null ELSE DumpContent(page.content)]

\* category.model_dump(mode="json")
DumpCategory(category) ==
    [name |-> category.name,
     pages |-> [i \in 1..Len(category.pages) |-> DumpPage(category.pages[i])]]

LoadContent(data) ==
    Content([i \in 1..Len(data.content_sections) |->
                ContentSection(data.content_sections[i].title,
                               data.content_sections[i].content)])

LoadInfoBox(data) ==
    InfoBox(data.title,
            [i \in 1..Len(data.info_box_sections) |->
                InfoBoxSection(data.info_box_sections[i].title,
                               data.info_box_sections[i].description)])

LoadPage(data) ==
    Page(data.title,
         HttpUrl(data.url),
         IF data.info_box = Null THEN None ELSE LoadInfoBox(data.info_box),
         IF data.content = Null THEN None ELSE LoadContent(data.content))

\* a Category validated of one object of the file
LoadCategory(data) ==
    Category(data.name, [i \in 1..Len(data.pages) |-> LoadPage(data.pages[i])])

\* the pages a saved tree is made of: one never scraped, one with an empty
\* info_box and an empty content, and one scraped in this run, which holds
\* its page source
ScrapedSource == CHOOSE source \in DomPool : source.mw_parser_output # None

StoredPagePool ==
    { Page(<<"P">>, HttpUrl(Http \o <<":", "/", "/", "h">>), None, None),
      Page(<<"Q">>, HttpUrl(Https \o <<":", "/", "/", "h", "/", "1">>),
           InfoBox(<<>>, <<>>), Content(<<>>)),
      [ Page(<<"R">>, HttpUrl(Https \o <<":", "/", "/", "h", "/", "2">>),
             InfoBox(<<"N">>, <<InfoBoxSection(<<"k">>, <<"v">>)>>),
             ContentAfter(ScrapedSource.mw_parser_output))
        EXCEPT !.page_source = ScrapedSource ] }

StoredCategoryPool ==
    { Category(<<"A">>, pages) :
         pages \in UNION {[1..n -> StoredPagePool] : n \in 0..NumPages} }

TreePool ==
    UNION {[1..n -> StoredCategoryPool] : n \in 0..MaxCategories}

StoreInit ==
    /\ categories \in TreePool
    /\ scrape = <<>>
    /\ tasks = <<>>
    /\ chrome = {}
    /\ calls = 0
    /\ crawl = NoCrawl
    /\ ParseIdle
    /\ BoxIdle
    /\ SectionsIdle
    /\ file = [exists |-> FALSE, data |-> <<>>]
    /\ loaded = <<>>
    /\ pcStore = "start"

\* crawler.save_categories(filename)
SaveCategories ==
    /\ pcStore # "loaded"
    /\ file' = [exists |-> TRUE,
                data |-> [c \in 1..Len(categories) |-> DumpCategory(categories[c])]]
    /\ pcStore' = "saved"
    /\ UNCHANGED loaded
    /\ UNCHANGED notStore

\* Crawler().load_categories(filename): open() raises when there is no file
LoadCategories ==
    /\ file.exists
    /\ pcStore # "loaded"
    /\ loaded' = [c \in 1..Len(file.data) |-> LoadCategory(file.data[c])]
    /\ pcStore' = "loaded"
    /\ UNCHANGED file
    /\ UNCHANGED notStore

StoreNext ==
    \/ SaveCategories
    \/ LoadCategories

SpecStore == StoreInit /\ [][StoreNext]_vars

-----------------------------------------------------------------------------
(* The section machine run child by child *)

\* the elements a container is built from
ElementPool ==
    { Element("p", << <<"a">> >>, 0),
      Element("p", << <<"b">> \o EditMarker, <<"c">> >>, 0),
      Element("p", << <<"[", "e", "[", "e", "d">>,
                      <<"i", "t", "]", "d", "i", "t", "]">> >>, 0),
      Element("p", << >>, 0),
      Element("h2", << <<" ", "T", " ">>, EditMarker >>, 1),
      Element("h2", << <<"U">>, EditMarker >>, 0),
      Element("h2", << <<" ">> >>, 0),
      Element("h3", << <<"s">> >>, 0),
      Element("dl", << <<"k">>, <<" ", "v">> >>, 0),
      Element("div", << <<"x">> >>, 0),
      Element(NoName, << <<"\n">> >>, 0) }

LoopState ==
    [current_title |-> current_title, current_texts |-> current_texts,
     have_text |-> have_text, content_sections |-> content_sections]

SectionsInit ==
    /\ ScrapeIdle
    /\ ParseIdle
    /\ StoreIdle
    /\ BoxIdle
    /\ children = <<>>
    /\ current_title = LoopInit.current_title
    /\ current_texts = LoopInit.current_texts
    /\ have_text = LoopInit.have_text
    /\ content_sections = LoopInit.content_sections
    /\ pcSections = "loop"

\* the loop takes the next child of the container
Consume(child) ==
    /\ pcSections = "loop"
    /\ children' = Append(children, child)
    /\ LET st == LoopBody(LoopState, child) IN
         /\ current_title' = st.current_title
         /\ current_texts' = st.current_texts
         /\ have_text' = st.have_text
         /\ content_sections' = st.content_sections
    /\ UNCHANGED pcSections
    /\ UNCHANGED notSections

NextChild(child) ==
    /\ Len(children) < MaxChildren
    /\ Consume(child)

EndOfChildren ==
    /\ pcSections = "loop"
    /\ content_sections' = LoopEnd(LoopState).content_sections
    /\ pcSections' = "done"
    /\ UNCHANGED <<children, current_title, current_texts, have_text>>
    /\ UNCHANGED notSections

SectionsNext ==
    \/ \E child \in ElementPool : NextChild(child)
    \/ EndOfChildren

SpecSections == SectionsInit /\ [][SectionsNext]_vars

-----------------------------------------------------------------------------
(* The section machine on the container                                    *)
(*   <p>Intro</p><h2>History</h2><p>Text A</p><h3>Sub</h3><p>Text B</p>    *)
(* with or without a line break between, before and after its elements     *)

ExampleContainer ==
    << Element("p", << <<"I", "n", "t", "r", "o">> >>, 0),
       Element("h2", << <<"H", "i", "s", "t", "o", "r", "y">> >>, 0),
       Element("p", << <<"T", "e", "x", "t", " ", "A">> >>, 0),
       Element("h3", << <<"S", "u", "b">> >>, 0),
       Element("p", << <<"T", "e", "x", "t", " ", "B">> >>, 0) >>

LineBreak == Element(NoName, << <<"\n">> >>, 0)

\* the children that are tags
Tags(kids) == SelectSeq(kids, LAMBDA kid : kid.name # NoName)

IsPrefix(s, t) == Len(s) <= Len(t) /\ s = SubSeq(t, 1, Len(s))

\* the next child of such a container: the next element of the example, or
\* one line break between two elements
ExampleChild(child) ==
    /\ IsPrefix(Tags(Append(children, child)), ExampleContainer)
    /\ IF child = LineBreak /\ children # <<>>
       THEN children[Len(children)] # LineBreak
       ELSE TRUE
    /\ Consume(child)

ExampleNext ==
    \/ \E child \in {ExampleContainer[i] : i \in DOMAIN ExampleContainer}
                      \cup {LineBreak} : ExampleChild(child)
    \/ EndOfChildren

SpecExample == SectionsInit /\ [][ExampleNext]_vars

-----------------------------------------------------------------------------
(* C5: headings each followed by paragraphs *)

H2Positions == {i \in 1..Len(children) : children[i].name = "h2"}

\* the position of the k-th h2 child
NthH2(k) ==
    CHOOSE i \in H2Positions : Cardinality({j \in H2Positions : j <= i}) = k

\* where the segment opened by the k-th h2 ends (k = 0: the leading segment)
SegmentEnd(k) ==
    IF k < Cardinality(H2Positions) THEN NthH2(k + 1) - 1 ELSE Len(children)

\* the texts of the children at lo..hi, concatenated
SegmentText(lo, hi) ==
    Join(<<>>, [i \in 1..(hi - lo + 1) |-> GetText(children[lo + i - 1])])

LeadingText == SegmentText(1, SegmentEnd(0))

\* the container of the claim: only h2 and p children, every h2 directly
\* followed by a p, and leading paragraphs, when there are any, not empty
HeadingsWithParagraphs ==
    /\ \A i \in 1..Len(children) : children[i].name \in {"h2", "p"}
    /\ \A i \in H2Positions :
          i < Len(children) /\ children[i + 1].name = "p"
    /\ SegmentEnd(0) >= 1 => LeadingText # <<>>

ExpectedSections ==
    (IF SegmentEnd(0) >= 1
     THEN <<ContentSection(<<>>, Replace(LeadingText, EditMarker))>>
     ELSE <<>>)
    \o [k \in 1..Cardinality(H2Positions) |->
          ContentSection(_get_title_from_h2(children[NthH2(k)]),
                         Replace(SegmentText(NthH2(k) + 1, SegmentEnd(k)),
                                 EditMarker))]

\* C5: for a container of K level-2 headings, each followed by one or more
\* paragraphs, optionally after non-empty leading paragraphs, the extraction
\* yields K sections (K+1 with leading prose) in document order, the i-th
\* titled by the i-th heading, its content the segment's paragraph texts
\* concatenated with every "[edit]" removed.
C5_SectionsPerHeading ==
    (pcSections = "done" /\ HeadingsWithParagraphs) =>
        /\ Len(content_sections) =
              Cardinality(H2Positions) + (IF SegmentEnd(0) >= 1 THEN 1 ELSE 0)
        /\ content_sections = ExpectedSections

\* two headings with paragraphs, one of them holding the marker, were extracted
C5_Witness ==
    /\ pcSections = "done"
    /\ HeadingsWithParagraphs
    /\ Cardinality(H2Positions) = 2
    /\ \E i \in 1..Len(children) :
          children[i].name = "p" /\ GetText(children[i]) # Replace(GetText(children[i]), EditMarker)
    /\ Len(content_sections) = 2

-----------------------------------------------------------------------------
(* C1: the semaphore bounds the running scrape_content calls *)

Running(c) == {r \in TasksOf(c) : tasks[r].pc \in InThread}

SlotHolders(c) == {r \in TasksOf(c) : tasks[r].pc \in HoldsSlot}

\* C1: during scrape_pages(max_workers=N) at most N scrape_content calls run
\* at once: a task runs scrape_content only while it holds one of the N
\* slots of the semaphore, and gives the slot back when the call is over.
C1_AtMostNRunning ==
    \A c \in DOMAIN categories :
        scrape[c].status # "idle" =>
            /\ Cardinality(Running(c)) <= scrape[c].max_workers
            /\ Running(c) \subseteq SlotHolders(c)
            /\ scrape[c].semaphore >= 0
            /\ scrape[c].semaphore + Cardinality(SlotHolders(c)) =
                  scrape[c].max_workers

\* N < P, N calls are running and a page waits for a slot
C1_Witness ==
    \E c \in DOMAIN categories :
        /\ scrape[c].max_workers < Len(categories[c].pages)
        /\ Cardinality(Running(c)) = scrape[c].max_workers
        /\ \E r \in TasksOf(c) : tasks[r].pc = "pending"

-----------------------------------------------------------------------------
(* C2: a page's failure stays in its task *)

\* the Content an extraction that completed leaves on the page
Extracted(r) == ContentAfter(PageAt(r).page_source.mw_parser_output)

\* C2: a failure while one page is processed is caught inside that page's
\* task: no exception reaches the caller of scrape_pages, no task fails or
\* is cancelled, and when scrape_pages returns every task has completed and
\* every page whose own processing did not fail has its content set by its
\* extraction.
C2_FailureContained ==
    \A c \in DOMAIN categories :
        /\ scrape[c].status # "raised"
        /\ \A r \in TasksOf(c) : tasks[r].pc \notin {"raised", "failed"}
        /\ scrape[c].status = "returned" =>
              \A r \in TasksOf(c) :
                  /\ tasks[r].pc = "done"
                  /\ tasks[r].error = "none" =>
                        /\ PageAt(r).content # None
                        /\ PageAt(r).page_source # None
                        /\ PageAt(r).content = Extracted(r)

\* scrape_pages returned, one page failed to start its browser and another
\* page was extracted
C2_Witness ==
    \E c \in DOMAIN categories :
        /\ scrape[c].status = "returned"
        /\ \E r, q \in TasksOf(c) :
              /\ tasks[r].error = "chrome"
              /\ tasks[q].error = "none"
              /\ PageAt(q).content # None
              /\ PageAt(q).content.content_sections # <<>>

-----------------------------------------------------------------------------
(* C3: what a failed scrape_content leaves of the content *)

\* C3: whenever scrape_content fails for a page, the page's content is what
\* it was before the call (None when unset, the stored Content when set).
C3_FailureKeepsContent ==
    [][\A r \in PageRefs :
          (tasks[r].error = "none" /\ tasks'[r].error # "none") =>
              categories'[r[1]].pages[r[2]].content = PageAt(r).content]_vars

-----------------------------------------------------------------------------
(* C4: scrape_pages is a structured join *)

\* C4: scrape_pages returns only after every page task it started is over,
\* and, every page load ending and the scheduling being fair, it returns.
C4_StructuredJoin ==
    /\ [](\A c \in AllCategories :
            (c \in DOMAIN categories /\ scrape[c].status = "returned") =>
                \A r \in TasksOf(c) : tasks[r].pc = "done")
    /\ \A c \in AllCategories :
          (c \in DOMAIN categories /\ scrape[c].status = "gathering")
             ~> (scrape[c].status = "returned")

\* scrape_pages returned after every page of a full category was processed,
\* one of them with a contained failure
C4_Witness ==
    \E c \in DOMAIN categories :
        /\ scrape[c].status = "returned"
        /\ Len(categories[c].pages) = NumPages
        /\ scrape[c].max_workers < NumPages
        /\ \A r \in TasksOf(c) : tasks[r].pc = "done"
        /\ \E r \in TasksOf(c) : tasks[r].error = "navigation"

-----------------------------------------------------------------------------
(* C9: one browser session per scrape_content *)

\* C9: no browser session is shared: the sessions two tasks hold at the same
\* time are different sessions, each one open.
C9_OwnSession ==
    \A r \in PageRefs :
        tasks[r].browser # NoBrowser =>
            /\ tasks[r].browser \in chrome
            /\ \A q \in PageRefs \ {r} : tasks[q].browser # tasks[r].browser

\* two page tasks are inside their with blocks at once
C9_Witness ==
    \E r, q \in PageRefs :
        /\ r # q
        /\ tasks[r].pc = "browser" /\ tasks[r].browser # NoBrowser
        /\ tasks[q].pc = "browser" /\ tasks[q].browser # NoBrowser

-----------------------------------------------------------------------------
(* C10: a task writes only its own page *)

\* C10: a step of the task that scrapes page r leaves every other page, the
\* title, url and info_box of page r itself, and the pages lists unchanged.
C10_WritesOwnPage ==
    [][\A r \in AllPageRefs :
          TaskStep(r) =>
             /\ DOMAIN categories' = DOMAIN categories
             /\ \A c \in DOMAIN categories :
                   /\ categories'[c].name = categories[c].name
                   /\ DOMAIN categories'[c].pages = DOMAIN categories[c].pages
                   /\ \A i \in DOMAIN categories[c].pages :
                         IF <<c, i>> = r
                         THEN /\ categories'[c].pages[i].title = PageAt(r).title
                              /\ categories'[c].pages[i].url = PageAt(r).url
                              /\ categories'[c].pages[i].info_box = PageAt(r).info_box
                         ELSE categories'[c].pages[i] = categories[c].pages[i]]_vars

\* one page has been extracted while the task of another page, not yet
\* written, is still inside its with block
C10_Witness ==
    \E r, q \in PageRefs :
        /\ r # q
        /\ tasks[r].pc \in {"finished", "done"}
        /\ tasks[r].error = "none"
        /\ PageAt(r).content # None
        /\ tasks[q].pc = "browser"
        /\ PageAt(q).page_source = None

-----------------------------------------------------------------------------
(* C6: anchors without a usable href *)

\* the anchors of the claim's L - J: those with an href that validates
ValidLinks(links) ==
    SelectSeq(links, LAMBDA link : link.has_href /\ IsHttpUrl(link.href))

\* C6: an anchor whose href is missing or fails URL validation is dropped
\* without failing the group or the parse: every group parsed yields a
\* Category with exactly its valid anchors as pages, in document order.
C6_BadHrefDropped ==
    /\ pcParse # "raised"
    /\ pcParse = "done" =>
          /\ Len(categories) = Len(category_groups)
          /\ \A g \in 1..Len(category_groups) :
                /\ Len(categories[g].pages) =
                      Len(ValidLinks(category_groups[g].links))
                /\ \A i \in 1..Len(categories[g].pages) :
                      categories[g].pages[i].title =
                         ValidLinks(category_groups[g].links)[i].text

-----------------------------------------------------------------------------
(* C7: the infobox of a table *)

\* the rows that are not title rows: the claim's k further rows
FurtherRows(rows) ==
    SelectSeq(rows, LAMBDA row : row.header = None \/ "title" \notin row.header.class)

\* those of them that miss the header cell or the data cell: the claim's j
MissingCell(rows) ==
    SelectSeq(FurtherRows(rows), LAMBDA row : row.header = None \/ row.data = None)

\* those of them that have both cells
BothCells(rows) ==
    SelectSeq(FurtherRows(rows), LAMBDA row : row.header # None /\ row.data # None)

TitleRows(rows) ==
    SelectSeq(rows, LAMBDA row : row.header # None /\ "title" \in row.header.class)

\* C7: for an infobox table with a title row and k further rows of which j
\* miss the header cell or the data cell, the extracted InfoBox has the
\* title row's text as title and exactly k - j sections in row order, one
\* per row having both cells, the title row never producing a section;
\* with no title row the title is the empty string.
C7_InfoBoxOfTable ==
    (pcInfoBox = "done" /\ infobox_table # None) =>
        /\ info_box # None
        /\ Len(info_box.info_box_sections) =
              Len(FurtherRows(infobox_table.rows)) - Len(MissingCell(infobox_table.rows))
        /\ \A i \in 1..Len(info_box.info_box_sections) :
              info_box.info_box_sections[i].title =
                 GetTextStrip(BothCells(infobox_table.rows)[i].header)
        /\ IF TitleRows(infobox_table.rows) = <<>>
           THEN info_box.title = <<>>
           ELSE info_box.title = GetTextStrip(TitleRows(infobox_table.rows)[1].header)

\* a table of a title row that has a data cell, then a row missing a cell
\* between two rows with both cells, has been extracted: k = 3, j = 1
C7_Witness ==
    /\ pcInfoBox = "done"
    /\ infobox_table # None
    /\ Len(infobox_table.rows) = 4
    /\ Len(TitleRows(infobox_table.rows)) = 1
    /\ infobox_table.rows[1].header # None
    /\ "title" \in infobox_table.rows[1].header.class
    /\ infobox_table.rows[1].data # None
    /\ Len(MissingCell(infobox_table.rows)) = 1
    /\ infobox_table.rows[3].data = None
    /\ info_box # None
    /\ Len(info_box.info_box_sections) = 2
    /\ info_box.info_box_sections[1].title # info_box.info_box_sections[2].title
    /\ info_box.title = <<"M">>

-----------------------------------------------------------------------------
(* C8: a saved tree, loaded *)

\* a page without its private page source
PublicPage(page) == [page EXCEPT !.page_source = None]

PublicCategory(category) ==
    Category(category.name,
             [i \in 1..Len(category.pages) |-> PublicPage(category.pages[i])])

\* C8: save_categories followed by load_categories yields a list
\* structurally identical to the original: the same categories and pages in
\* the same order, with the same titles, urls, info boxes and sections; a
\* page whose content or info_box is absent loads with it absent, and one
\* whose content or info_box is empty loads with it empty.
C8_RoundTrip ==
    pcStore = "loaded" =>
        /\ Len(loaded) = Len(categories)
        /\ \A c \in 1..Len(loaded) :
              /\ loaded[c] = PublicCategory(categories[c])
              /\ \A i \in 1..Len(loaded[c].pages) :
                    /\ loaded[c].pages[i].content = None
                          <=> categories[c].pages[i].content = None
                    /\ loaded[c].pages[i].info_box = None
                          <=> categories[c].pages[i].info_box = None

\* a tree of two categories has been saved and loaded: in the first a page
\* without content and info_box comes before one with an empty content and
\* an empty info_box, the second holds a page scraped in this run
C8_Witness ==
    /\ pcStore = "loaded"
    /\ Len(categories) = 2
    /\ Len(loaded) = 2
    /\ Len(categories[1].pages) = 2
    /\ categories[1].pages[1].content = None
    /\ categories[1].pages[1].info_box = None
    /\ categories[1].pages[2].content = Content(<<>>)
    /\ categories[1].pages[2].info_box = InfoBox(<<>>, <<>>)
    /\ Len(categories[2].pages) = 1
    /\ categories[2].pages[1].page_source # None
    /\ categories[2].pages[1].content.content_sections # <<>>
    /\ loaded[1].pages[1].content = None
    /\ loaded[1].pages[2].content = Content(<<>>)
    /\ loaded[2].pages[1].content = categories[2].pages[1].content

-----------------------------------------------------------------------------
(* C11: the marker in the content of a section *)

\* C11: whatever the children and however the text is split across them, no
\* emitted section's content contains "[edit]".
C11_NoEditMarker ==
    \A i \in 1..Len(content_sections) :
        ~Contains(content_sections[i].content, EditMarker)

-----------------------------------------------------------------------------
(* C12: a page without the content container *)

\* C12: when the content container is not found in a page's DOM, the error
\* is not propagated (the task does not fail, scrape_pages does not raise):
\* it is logged and the page ends with a Content that is present and has no
\* sections.
C12_MissingContainerEmptyContent ==
    \A r \in PageRefs :
        tasks[r].error = "container" =>
            /\ tasks[r].pc \in {"finished", "done"}
            /\ scrape[r[1]].status # "raised"
            /\ PageAt(r).page_source # None
            /\ PageAt(r).page_source.mw_parser_output = None
            /\ PageAt(r).content # None
            /\ PageAt(r).content = Content(<<>>)

\* scrape_pages returned after the first page of the category was found
\* without the container
C12_Witness ==
    \E r \in PageRefs :
        /\ tasks[r].error = "container"
        /\ tasks[r].pc = "done"
        /\ scrape[r[1]].status = "returned"
        /\ r[2] = 1
        /\ PageAt(r).content = Content(<<>>)

-----------------------------------------------------------------------------
(* C13: a subsection heading in the buffer *)

\* the step in which the loop takes a level-3/level-4 heading
SubsectionHeadingStep ==
    /\ Len(children') = Len(children) + 1
    /\ children'[Len(children')].name \in {"h3", "h4"}

\* the example of the claim: the children p("Intro"), h2("History"),
\* p("Text A"), h3("Sub"), p("Text B") yield exactly two sections,
\* {title "", content "Intro"} and
\* {title "History", content "Text A\nSub\nText B"}
ExampleSections ==
    (pcSections = "done" /\ Tags(children) = ExampleContainer) =>
        content_sections =
           << ContentSection(<<>>, <<"I", "n", "t", "r", "o">>),
              ContentSection(<<"H", "i", "s", "t", "o", "r", "y">>,
                             <<"T", "e", "x", "t", " ", "A", "\n", "S", "u", "b", "\n", "T", "e", "x", "t", " ", "B">>) >>

\* C13 as stated: a level-3/level-4 heading contributes its text plus a
\* trailing line break to the current buffer, so the example container
\* yields exactly the two sections above.
C13_TrailingBreakOnly ==
    /\ []ExampleSections
    /\ [][SubsectionHeadingStep =>
             current_texts' =
                Append(current_texts,
                       GetText(children'[Len(children')]) \o <<"\n">>)]_vars

\* C13, amended: a level-3/level-4 heading contributes a line break, its
\* text and a trailing line break to the current buffer, so the example
\* container yields exactly the two sections above.
C13_SubsectionHeadingExample ==
    /\ []ExampleSections
    /\ [][SubsectionHeadingStep =>
             current_texts' =
                Append(current_texts,
                       <<"\n">> \o GetText(children'[Len(children')])
                              \o <<"\n">>)]_vars

\* the five children of the example, with nothing between them, were read to
\* the end
C13_Witness ==
    /\ pcSections = "done"
    /\ children = ExampleContainer
    /\ Len(content_sections) = 2

-----------------------------------------------------------------------------
(* C14: the page scrape_page scrapes *)

\* C14: scrape_page(title) scrapes the page with that title for any page
\* present in the tree, whatever the name of the category holding it, and
\* scrapes at most one page.
C14_ScrapesPageOfTitle ==
    [][\A page_title \in TitlePool :
          (/\ ScrapePage(page_title)
           /\ \E r \in PageRefs : PageAt(r).title = page_title)
          => \E r \in PageRefs :
                /\ PageAt(r).title = page_title
                /\ tasks'[r].pc = "finished"
                /\ \A q \in PageRefs \ {r} :
                      /\ tasks'[q] = tasks[q]
                      /\ PageAt(q)' = PageAt(q)]_vars

-----------------------------------------------------------------------------
(* C15: the level-2 heading transition *)

\* the step in which the loop takes a level-2 heading
H2Step ==
    /\ Len(children') = Len(children) + 1
    /\ children'[Len(children')].name = "h2"

\* the label of a heading: the text of its mw-headline child when it has
\* one, else its own text, stripped
HeadingLabel(h2) ==
    IF h2.headline # 0 THEN Strip(h2.strings[h2.headline])
    ELSE Join(<<>>, SelectSeq([i \in 1..Len(h2.strings) |-> Strip(h2.strings[i])],
                              LAMBDA t : t # <<>>))

\* C15: on each h2 child a section {current_title, buffer} is emitted if and
\* only if have_text is true at that moment; regardless of have_text,
\* current_title is then replaced by the heading's label and have_text is
\* reset to false; the number of emitted sections never exceeds the number
\* of h2 children plus one.
C15_H2Transition ==
    /\ [][H2Step =>
            /\ IF have_text
               THEN /\ Len(content_sections') = Len(content_sections) + 1
                    /\ SubSeq(content_sections', 1, Len(content_sections)) =
                          content_sections
                    /\ content_sections'[Len(content_sections')].title =
                          current_title
                    /\ content_sections'[Len(content_sections')].content =
                          Replace(Join(<<>>, current_texts), EditMarker)
               ELSE content_sections' = content_sections
            /\ current_title' = HeadingLabel(children'[Len(children')])
            /\ have_text' = FALSE]_vars
    /\ [](Len(content_sections) <= Cardinality(H2Positions) + 1)

\* the loop has taken a heading with an mw-headline child after a paragraph
\* and emitted a section, then a second heading with no text in between,
\* which emitted none
C15_Witness ==
    /\ pcSections = "loop"
    /\ Len(children) = 3
    /\ children[1].name = "p"
    /\ children[2].name = "h2"
    /\ children[2].headline # 0
    /\ children[3].name = "h2"
    /\ children[3].headline = 0
    /\ Len(content_sections) = 1
    /\ current_title = HeadingLabel(children[3])
    /\ current_title # HeadingLabel(children[2])
    /\ ~have_text

-----------------------------------------------------------------------------
(* C16: what makes a segment a section *)

\* the first child of the segment opened by the k-th h2 (k = 0: the leading
\* segment)
SegmentStart(k) == IF k = 0 THEN 1 ELSE NthH2(k) + 1

\* the names of the children of segment k
SegmentNames(k) == {children[i].name : i \in SegmentStart(k)..SegmentEnd(k)}

SegmentsWithParagraph ==
    {k \in 0..Cardinality(H2Positions) : "p" \in SegmentNames(k)}

\* the step in which the loop takes a child that is neither an h2 nor a p
OtherChildStep ==
    /\ Len(children') = Len(children) + 1
    /\ children'[Len(children')].name \notin {"h2", "p"}

ParagraphStep ==
    /\ Len(children') = Len(children) + 1
    /\ children'[Len(children')].name = "p"

\* C16: only paragraphs set have_text; level-3/level-4 headings and
\* definition lists never do, so a segment holding subsection headings or
\* definition lists but no paragraph produces no section and a segment with
\* a paragraph produces exactly one: the number of sections is the number of
\* segments containing a paragraph.
C16_ParagraphsMakeSections ==
    /\ [][OtherChildStep => have_text' = have_text]_vars
    /\ [][ParagraphStep => have_text']_vars
    /\ [](pcSections = "done" =>
             Len(content_sections) = Cardinality(SegmentsWithParagraph))

\* a container read to the end in which one segment holds a subsection
\* heading or a definition list and no paragraph, and another holds a
\* paragraph
C16_Witness ==
    /\ pcSections = "done"
    /\ \E k \in 0..Cardinality(H2Positions) :
          /\ "p" \notin SegmentNames(k)
          /\ SegmentNames(k) \cap {"h3", "h4", "dl"} # {}
    /\ Len(content_sections) = 1
    /\ Cardinality(H2Positions) = 1

-----------------------------------------------------------------------------
(* C17: the section with the empty title *)

\* no h2 child has an empty label
NoEmptyLabel ==
    \A i \in H2Positions : HeadingLabel(children[i]) # <<>>

\* C17: provided no h2 label is itself empty, a section with empty title is
\* emitted if and only if at least one paragraph precedes the first level-2
\* heading (or the input has paragraphs and no level-2 heading at all); when
\* emitted it is the first section of the output.
C17_LeadingSection ==
    NoEmptyLabel =>
        /\ \A i \in 1..Len(content_sections) :
              content_sections[i].title = <<>> => i = 1
        /\ pcSections = "done" =>
              ((\E i \in 1..Len(content_sections) :
                   content_sections[i].title = <<>>)
               <=> "p" \in SegmentNames(0))

\* a container of paragraphs and no level-2 heading was read to the end and
\* gave the one section, with the empty title
C17_Witness ==
    /\ pcSections = "done"
    /\ H2Positions = {}
    /\ Len(children) >= 2
    /\ "p" \in SegmentNames(0)
    /\ Len(content_sections) = 1
    /\ content_sections[1].title = <<>>

-----------------------------------------------------------------------------
(* C18: a section's content comes from its own segment *)

\* what a child adds to the buffer
Contribution(child) ==
    IF child.name = "p" THEN Join(<<>>, child.strings)
    ELSE IF child.name \in {"h3", "h4"}
         THEN <<"\n">> \o Join(<<>>, child.strings) \o <<"\n">>
    ELSE IF child.name = "dl"
         THEN Join(<<"\n">>, [i \in 1..Len(child.strings) |-> Strip(child.strings[i])])
    ELSE <<>>

\* the content made of the children of segment k alone
SegmentContent(k) ==
    Replace(Join(<<>>, [i \in 1..(SegmentEnd(k) - SegmentStart(k) + 1) |->
                          Contribution(children[SegmentStart(k) + i - 1])]),
            EditMarker)

\* the segment of the i-th section: the i-th segment that holds a paragraph
SectionSegment(i) ==
    CHOOSE k \in SegmentsWithParagraph :
        Cardinality({j \in SegmentsWithParagraph : j <= k}) = i

\* C18: every emitted section's content is built only from the children of
\* its own segment: the buffer is emptied at every level-2 heading whether
\* or not a section was emitted, so text of subsection headings or
\* definition lists collected in a segment without paragraph is discarded
\* and appears in no later section.
C18_ContentOfOwnSegment ==
    /\ [][H2Step => current_texts' = <<>>]_vars
    /\ [](pcSections = "done" =>
             /\ Len(content_sections) = Cardinality(SegmentsWithParagraph)
             /\ \A i \in 1..Len(content_sections) :
                   content_sections[i].content = SegmentContent(SectionSegment(i)))

\* a container read to the end: its leading segment holds a subsection
\* heading or a definition list with text and no paragraph, the segment
\* after it a paragraph, and the one section has the paragraph's text alone
C18_Witness ==
    /\ pcSections = "done"
    /\ Cardinality(H2Positions) = 1
    /\ "p" \notin SegmentNames(0)
    /\ SegmentNames(0) \cap {"h3", "h4", "dl"} # {}
    /\ SegmentContent(0) # <<>>
    /\ SegmentNames(1) = {"p"}
    /\ Len(content_sections) = 1
    /\ content_sections[1].content # <<>>
    /\ content_sections[1].content = SegmentContent(1)

-----------------------------------------------------------------------------
(* C19: how much runs at once under scrape_categories *)

\* the categories whose scrape_pages call is running
CategoriesRunning == {c \in DOMAIN categories : scrape[c].status = "gathering"}

\* the page tasks that run
PagesRunning == {r \in PageRefs : tasks[r].pc \in InThread}

\* C19: during scrape_categories(max_workers=C, max_workers_page=W) at most
\* C categories are being scraped at once and at most W pages of any single
\* category, so the number of running page tasks, and of open browser
\* sessions, never exceeds C*W.
C19_AtMostCTimesW ==
    crawl.status = "gathering" =>
        /\ Cardinality(CategoriesRunning) <= crawl.max_workers
        /\ \A c \in DOMAIN categories :
              Cardinality(Running(c)) <= crawl.max_workers_page
        /\ Cardinality(PagesRunning) <= crawl.max_workers * crawl.max_workers_page
        /\ Cardinality(chrome) <= crawl.max_workers * crawl.max_workers_page

-----------------------------------------------------------------------------
(* C20: the sessions scrape_content leaves open *)

\* the sessions started for page r that were not quit
SessionsOf(r) == {b \in chrome : b[1] = r[1] /\ b[2] = r[2]}

\* C20: every browser session opened by scrape_content has been quit by the
\* time scrape_content returns, on every path, when extraction completes and
\* when navigation or extraction raises inside the init_browser block; after
\* scrape_pages returns no browser session is left open.
C20_SessionsQuit ==
    /\ \A r \in PageRefs :
          tasks[r].pc \in {"finished", "raised"} \cup Completed =>
             SessionsOf(r) = {}
    /\ \A c \in DOMAIN categories :
          scrape[c].status = "returned" => chrome = {}

-----------------------------------------------------------------------------
(* C21: the info_box under the orchestration entry points *)

\* C21: Page.scrape_content, Category.scrape_page, Category.scrape_pages,
\* Crawler.scrape_page and Crawler.scrape_categories never modify a page's
\* info_box: no step of them changes any page's info_box, so after any
\* sequence of them it is what it was before (None for a freshly parsed
\* tree).
C21_InfoBoxUntouched ==
    [][\A r \in PageRefs : PageAt(r)'.info_box = PageAt(r).info_box]_vars

\* the first page holds the stored InfoBox and has been scraped with success
\* by a scrape_page call, after scrape_categories had returned
C21_Witness ==
    /\ crawl.status = "returned"
    /\ calls = MaxCalls
    /\ <<1, 1>> \in PageRefs
    /\ PageAt(<<1, 1>>).info_box = StoredInfoBox
    /\ PageAt(<<1, 1>>).page_source # None
    /\ PageAt(<<1, 1>>).content.content_sections # <<>>
    /\ PageAt(<<1, 1>>).content # StoredContent
    /\ tasks[<<1, 1>>].pc = "finished"

-----------------------------------------------------------------------------
(* C22: the page source held by a Page *)

\* page r has been navigated to by an earlier scrape_content: a page source
\* is held, or a session other than the one of the running task is open for
\* the page (the session of a scrape_content whose navigation raised: it is
\* not quit, and one that could not start Chrome leaves none)
Navigated(r) ==
    /\ r \in PageRefs
    /\ \/ PageAt(r).page_source # None
       \/ \E b \in SessionsOf(r) : b # tasks[r].browser

\* a session is open for page r and no page source is held: _set_content is
\* about to call _set_page_source
AboutToNavigate(r) ==
    /\ r \in PageRefs
    /\ tasks[r].pc = "browser"
    /\ PageAt(r).page_source = None

\* a page source, once held, is never replaced, and the page keeps the
\* content read from it
SnapshotKept ==
    [][\A r \in PageRefs :
          PageAt(r).page_source # None => PageAt(r)' = PageAt(r)]_vars

\* the content of a page that holds a page source is what the extraction
\* gives for the container of that page source
ContentOfSnapshot ==
    \A r \in PageRefs :
       PageAt(r).page_source # None =>
          PageAt(r).content =
             ContentAfter(PageAt(r).page_source.mw_parser_output)

\* no navigation raises for a page that holds a page source
NoNavigationOnSnapshot ==
    [][\A r \in PageRefs :
          PageAt(r).page_source # None => tasks'[r].error # "navigation"]_vars

\* C22 as stated: a Page navigates to its url at most once in its lifetime
\* (no scrape_content is about to navigate to a page that an earlier one has
\* navigated to, with or without success), and the Content is the one read
\* from the page source held.
C22_NavigatesAtMostOnce ==
    /\ \A r \in PageRefs : ~(Navigated(r) /\ AboutToNavigate(r))
    /\ ContentOfSnapshot

\* C22: a Page navigates with success at most once: the page source captured
\* by the first successful _set_page_source is held by the Page and never
\* replaced, every later scrape_content on the Page reads the content again
\* from it without navigating (a new browser session is still opened), so
\* the Page and its Content stay the same under repeated scrapes.  A
\* navigation that raised leaves no page source, and the next scrape_content
\* navigates again.
C22_SnapshotCachedAfterSuccess ==
    /\ SnapshotKept
    /\ NoNavigationOnSnapshot
    /\ []ContentOfSnapshot

\* a later scrape_pages call has opened a new session for a page that holds
\* the page source of an earlier call
C22_Witness ==
    /\ calls >= 2
    /\ \E r \in PageRefs :
          /\ PageAt(r).page_source # None
          /\ tasks[r].pc = "browser"
          /\ tasks[r].browser \in chrome

=============================================================================
